---- MODULE Spec2Model ----
(***************************************************************************)
(* Model of post_processing/plot_results_final_policy.py: the loader of    *)
(* the CPU-time logs and trajectories, the aggregation over the runs of    *)
(* each setting (get_mean_and_std_exec_time), and the plots the main       *)
(* script draws from the aggregates, in the order it draws them.           *)
(*                                                                         *)
(* Numbers.  Means are exact rationals [num, den] in lowest terms.  A      *)
(* standard deviation is kept as a float record [kind, sq]: kind is "fin", *)
(* "nan" or "inf" and sq is the SQUARE of the value (the variance), so     *)
(* that no square root is needed; x = 0 iff x^2 = 0 and a / b is            *)
(* represented by a^2 / b^2.                                               *)
(***************************************************************************)
EXTENDS Integers, Sequences, FiniteSets, TLC

\* ------------------------------------------------------------------ bounds
\* most run directories below load_dir in SpecAgg, the aggregation alone
MaxRuns == 3
\* most run directories below load_dir in Spec, the whole script
MaxTree == 4
\* most time steps written by one run
MaxDt == 2
\* the scheduling load of a run: CPU time of step k is load * k
Loads == {1, 3}
\* the directories of the settings below load_dir; `cases` is a prefix of it
Simulations == <<"a", "b", "c">>

\* ------------------------------------------------------------- arithmetic
RECURSIVE GCD(_, _)
GCD(a, b) == IF b = 0 THEN a ELSE GCD(b, a % b)

Abs(x) == IF x < 0 THEN -x ELSE x

\* the rational n / d, d > 0, in lowest terms
Rat(n, d) == LET g == GCD(Abs(n), d) IN [num |-> n \div g, den |-> d \div g]

RatDiv(a, b) == Rat(a.num * b.den, a.den * b.num)

Fin(r) == [kind |-> "fin", sq |-> r]
NaN == [kind |-> "nan", sq |-> Rat(0, 1)]
Inf == [kind |-> "inf", sq |-> Rat(0, 1)]

RECURSIVE SumSeq(_)
SumSeq(s) == IF s = <<>> THEN 0 ELSE Head(s) + SumSeq(Tail(s))

RECURSIVE SeqMinTo(_, _)
SeqMinTo(s, n) ==
    IF n = 1 THEN s[1]
    ELSE LET m == SeqMinTo(s, n - 1) IN IF s[n] < m THEN s[n] ELSE m

\* min() of a non-empty list
SeqMin(s) == SeqMinTo(s, Len(s))

Take(s, n) == SubSeq(s, 1, IF n < Len(s) THEN n ELSE Len(s))

\* torch.mean over a 1-d tensor of integers
Mean(xs) == Rat(SumSeq(xs), Len(xs))

\* torch.std over a 1-d tensor: the unbiased estimator (Bessel's correction),
\* sum((x - mean)^2) / (n - 1) = (n * sum(x^2) - sum(x)^2) / (n * (n - 1));
\* a single sample gives 0 / 0 = nan
Std(xs) ==
    LET n == Len(xs)
        s1 == SumSeq(xs)
        s2 == SumSeq([i \in 1..n |-> xs[i] * xs[i]])
    IN IF n = 1 THEN NaN ELSE Fin(Rat(n * s2 - s1 * s1, n * (n - 1)))

\* a / b on two tensors holding standard deviations (torch division: no raise)
StdDiv(a, b) ==
    IF a.kind = "nan" \/ b.kind = "nan" THEN NaN
    ELSE IF a.kind = "inf" THEN (IF b.kind = "inf" THEN NaN ELSE Inf)
    ELSE IF b.kind = "inf" THEN Fin(Rat(0, 1))
    ELSE IF b.sq.num = 0 THEN (IF a.sq.num = 0 THEN NaN ELSE Inf)
    ELSE Fin(RatDiv(a.sq, b.sq))

\* ----------------------------------------------------------------- loader
None == [some |-> FALSE, val |-> <<>>]
Some(v) == [some |-> TRUE, val |-> v]

\* timeInfo.dat of a run of n steps under scheduling load v, one row per time
\* step: the time, the cumulative CPU time, the clock time, the CPU time of the step
TimeInfo(n, v) ==
    [k \in 1..n |-> <<k, (v * k * (k + 1)) \div 2, (v * k * (k + 1)) \div 2 + k, v * k>>]

\* trajectory.txt of a run using a policy, one row per time step: the time, the
\* action taken and one probability per output neuron, in quarters
Trajectory(n, v) ==
    [k \in 1..n |-> [t |-> k, action |-> IF v > 4 - v THEN 0 ELSE 1, probs |-> <<v, 4 - v>>]]

\* one run directory: its CPU-time log and, if a policy was used, its trajectory
CaseDir(n, v, policy) ==
    [timeInfo |-> TimeInfo(n, v),
     trajectory |-> IF policy THEN Some(Trajectory(n, v)) ELSE None]

CaseDirs == {CaseDir(n, v, p) : n \in 1..MaxDt, v \in Loads, p \in BOOLEAN}

\* what glob(join(load_dir, s, "*")) returns for a setting with k run
\* directories: any runs, in any order
GlobResults(k) == [1..k -> CaseDirs]

\* read_csv(..., names=["t", "t_exec", "t_per_dt"], usecols=[0, 1, 3])
load_cpu_times(case) ==
    [t        |-> [k \in 1..Len(case.timeInfo) |-> case.timeInfo[k][1]],
     t_exec   |-> [k \in 1..Len(case.timeInfo) |-> case.timeInfo[k][2]],
     t_per_dt |-> [k \in 1..Len(case.timeInfo) |-> case.timeInfo[k][4]]]

\* the columns "t" and " action" are dropped; a missing file gives None
load_trajectory(case) ==
    IF ~case.trajectory.some THEN None
    ELSE Some([k \in 1..Len(case.trajectory.val) |-> case.trajectory.val[k].probs])

VARIABLES fs, cases, pc, results, raised, config, fig
vars == <<fs, cases, pc, results, raised, config, fig>>

\* ------------------------------------------------------------- aggregator
\* pt.stack needs tensors of one shape, else RuntimeError
StackOk(xs) == \A i \in 1..Len(xs) : Len(xs[i]) = Len(xs[1])

\* pt.mean(pt.stack(xs), dim=0) and pt.std(pt.stack(xs), dim=0): across the
\* stacked tensors, element by element
MeanDim0(xs) == [k \in 1..Len(xs[1]) |-> Mean([i \in 1..Len(xs) |-> xs[i][k]])]

StdDim0(xs) == [k \in 1..Len(xs[1]) |-> Std([i \in 1..Len(xs) |-> xs[i][k]])]

\* the last value of t_exec of every run
final_t_exec(tmp) == [i \in 1..Len(tmp) |-> tmp[i].t_exec[Len(tmp[i].t_exec)]]

\* the size of the first run taken for the common one, as is done for "t"
min_dt_of_first(tmp) == Len(tmp[1].t_per_dt)

\* min([i[key].size for i in tmp])
min_dt(tmp) == SeqMin([i \in 1..Len(tmp) |-> Len(tmp[i].t_per_dt)])

\* [pt.from_numpy(i[key].values)[:min_dt] for i in tmp]
truncated(tmp, m) == [i \in 1..Len(tmp) |-> Take(tmp[i].t_per_dt, m)]

\* [float(i["t"].size) for i in tmp]
n_dt(tmp) == [i \in 1..Len(tmp) |-> Len(tmp[i].t)]

\* the branch key == "probs": only the first trajectory is tested against None;
\* pt.stack raises TypeError on a None among tensors and RuntimeError on
\* matrices of different shapes; the mean is over the stacked (last) dimension
mean_probs(traj_tmp) ==
    IF ~traj_tmp[1].some THEN [exc |-> "none", val |-> None]
    ELSE IF \E i \in 1..Len(traj_tmp) : ~traj_tmp[i].some
        THEN [exc |-> "TypeError", val |-> None]
    ELSE IF ~StackOk([i \in 1..Len(traj_tmp) |-> traj_tmp[i].val])
        THEN [exc |-> "RuntimeError", val |-> None]
    ELSE [exc |-> "none",
          val |-> Some([k \in 1..Len(traj_tmp[1].val) |->
                     [j \in 1..Len(traj_tmp[1].val[k]) |->
                        Mean([i \in 1..Len(traj_tmp) |-> traj_tmp[i].val[k][j]])]])]

EmptyDict ==
    [t |-> <<>>, mean_t_exec |-> <<>>, std_t_exec |-> <<>>, mean_t_per_dt |-> <<>>,
     std_t_per_dt |-> <<>>, mean_n_dt |-> <<>>, std_n_dt |-> <<>>, mean_probs |-> <<>>]

\* a probs branch that appends nothing for a setting without a policy
append_probs_skipping_none(out_dict, p) ==
    IF p.some THEN [out_dict EXCEPT !.mean_probs = Append(@, p)] ELSE out_dict

\* the append of the key == "probs" branch: None is appended too
append_probs(out_dict, p) == [out_dict EXCEPT !.mean_probs = Append(@, p)]

\* one pass of the loop `for s in simulations`: the runs found by glob, in
\* the order found, then the loop over the keys t, t_exec, t_per_dt, n_dt, probs
loop_body(out_dict, runs) ==
    LET tmp == [i \in 1..Len(runs) |-> load_cpu_times(runs[i])]
        traj_tmp == [i \in 1..Len(runs) |-> load_trajectory(runs[i])]
    IN IF Len(runs) = 0 THEN [exc |-> "IndexError", out |-> out_dict]
       ELSE LET xs == truncated(tmp, min_dt(tmp))
                p == mean_probs(traj_tmp)
            IN IF ~StackOk(xs) THEN [exc |-> "RuntimeError", out |-> out_dict]
               ELSE IF p.exc # "none" THEN [exc |-> p.exc, out |-> out_dict]
               ELSE [exc |-> "none",
                     out |-> append_probs(
                        [out_dict EXCEPT
                           !.t = Append(@, tmp[1].t),
                           !.mean_t_exec = Append(@, Mean(final_t_exec(tmp))),
                           !.std_t_exec = Append(@, Std(final_t_exec(tmp))),
                           !.mean_t_per_dt = Append(@, MeanDim0(xs)),
                           !.std_t_per_dt = Append(@, StdDim0(xs)),
                           !.mean_n_dt = Append(@, Mean(n_dt(tmp))),
                           !.std_n_dt = Append(@, Std(n_dt(tmp)))],
                        p.val)]

\* the loop `for s in simulations`; an exception ends the function
RECURSIVE loop_simulations(_, _, _, _)
loop_simulations(load_dir, simulations, i, acc) ==
    IF i > Len(simulations) \/ acc.exc # "none" THEN acc
    ELSE loop_simulations(load_dir, simulations, i + 1,
                          loop_body(acc.out, load_dir[simulations[i]]))

get_mean_and_std_exec_time(load_dir, simulations) ==
    loop_simulations(load_dir, simulations, 1, [exc |-> "none", out |-> EmptyDict])

\* ------------------------------------------------------------------ plots
\* torch's r[1] == 0 on a standard deviation: nan == 0 is False
IsZero(x) == x.kind = "fin" /\ x.sq.num = 0

NoErr == Fin(Rat(0, 1))

\* the y-label chosen at the top of plot_avg_exec_times_final_policy, from the
\* flag as passed; ylabel = "" stands for None
choose_ylabel(ylabel, scale_wrt_default) ==
    IF ylabel = "" /\ scale_wrt_default THEN "t*_exec"
    ELSE IF ylabel = "" /\ ~scale_wrt_default THEN "t_exec [s]"
    ELSE ylabel

\* one pass of the loop over zip(data[keys[0]], data[keys[1]]): r is the
\* (mean, std) of the setting drawn and d that of the default setting
draw_point(r, d, scale_wrt_default) ==
    IF scale_wrt_default
    THEN IF IsZero(r[2])
         THEN [marker |-> "scatter", y |-> RatDiv(r[1], d[1]), yerr |-> NoErr]
         ELSE [marker |-> "errorbar", y |-> RatDiv(r[1], d[1]), yerr |-> StdDiv(r[2], d[2])]
    ELSE IF IsZero(r[2])
         THEN [marker |-> "scatter", y |-> r[1], yerr |-> NoErr]
         ELSE [marker |-> "errorbar", y |-> r[1], yerr |-> r[2]]

\* default = 0 stands for None and default = i for the Python index i - 1;
\* the label is chosen before a missing default switches the scaling off
plot_avg_exec_times_final_policy(data, key, default, save_name, ylabel, scale_wrt_default) ==
    LET means == IF key = "t_exec" THEN data.mean_t_exec ELSE data.mean_n_dt
        stds == IF key = "t_exec" THEN data.std_t_exec ELSE data.std_n_dt
        label == choose_ylabel(ylabel, scale_wrt_default)
        scale == IF default = 0 THEN FALSE ELSE scale_wrt_default
        d == IF default = 0 THEN 1 ELSE default
    IN [kind |-> "avg",
        key |-> key,
        args |-> [default |-> default, scale |-> scale_wrt_default, ylabel |-> ylabel],
        exc |-> "none",
        items |-> [i \in 1..Len(means) |->
                     draw_point(<<means[i], stds[i]>>, <<means[d], stds[d]>>, scale)],
        ylabel |-> label,
        scaled |-> scale,
        file |-> IF scale THEN save_name \o ".png" ELSE save_name \o "_abs.png"]

\* the indices of the cases which used a policy, in input order
RECURSIVE with_policy(_, _)
with_policy(probs, i) ==
    IF i > Len(probs) THEN <<>>
    ELSE IF probs[i].some THEN <<i>> \o with_policy(probs, i + 1)
    ELSE with_policy(probs, i + 1)

\* what ax is after plt.subplots(nrows=n_traj): an array of axes only for
\* nrows > 1, a single Axes object (ax[counter] raises TypeError) for nrows = 1
subplots(nrows) == IF nrows = 1 THEN "Axes" ELSE "array"

\* max() of the empty list raises ValueError before any figure exists; plot()
\* of an x and a y of different lengths raises ValueError
plot_probabilities(probs, time_steps, save_name) ==
    LET idx == with_policy(probs, 1)
        n_traj == Len(idx)
        bad == {m \in 1..n_traj : Len(time_steps[idx[m]]) # Len(probs[idx[m]].val)}
        exc == IF n_traj = 0 THEN "ValueError"
               ELSE IF subplots(n_traj) # "array" THEN "TypeError"
               ELSE IF bad # {} THEN "ValueError"
               ELSE "none"
    IN [kind |-> "probs",
        key |-> "probs",
        args |-> [default |-> 0, scale |-> FALSE, ylabel |-> ""],
        exc |-> exc,
        items |-> IF exc # "none" THEN <<>>
                  ELSE [m \in 1..n_traj |->
                          [group |-> idx[m], legend |-> idx[m],
                           lines |-> Len(probs[idx[m]].val[1])]],
        ylabel |-> "P",
        scaled |-> FALSE,
        file |-> IF exc = "none" THEN save_name \o ".png" ELSE ""]

\* the length of a / b on two 1-d tensors: equal sizes, or one of size 1 that
\* is broadcast; 0 stands for the RuntimeError of any other pair
broadcast(a, b) ==
    IF a = b THEN a ELSE IF a = 1 THEN b ELSE IF b = 1 THEN a ELSE 0

\* the series one pass of the last loop of the script hands to scatter: their
\* lengths, and the exception scatter raises on an x and a y of different sizes
dt_series(data, i, default, scale, min_n_dt) ==
    LET x == Len(Take(data.t[i], min_n_dt))
        mean == Len(Take(data.mean_t_per_dt[i], min_n_dt))
        std == Len(Take(data.std_t_per_dt[i], min_n_dt))
        mean_div == IF scale THEN Len(Take(data.mean_t_per_dt[default], min_n_dt)) ELSE mean
        std_div == IF scale THEN Len(Take(data.std_t_per_dt[default], min_n_dt)) ELSE std
        y0 == broadcast(mean, mean_div)
        y1 == broadcast(std, std_div)
    IN [x |-> x, mean |-> mean, std |-> std, mean_div |-> mean_div, std_div |-> std_div,
        exc |-> IF y0 = 0 \/ y1 = 0 THEN "RuntimeError"
                ELSE IF x # y0 \/ x # y1 THEN "ValueError"
                ELSE "none"]

RECURSIVE dt_loop(_, _, _, _, _)
dt_loop(data, i, default, scale, min_n_dt) ==
    IF i > Len(data.t) THEN <<>>
    ELSE LET s == dt_series(data, i, default, scale, min_n_dt)
         IN IF s.exc # "none" THEN <<s>>
            ELSE <<s>> \o dt_loop(data, i + 1, default, scale, min_n_dt)

\* the plot of the execution time per time step at the end of the script;
\* results[...][default_idx] with default_idx = None raises TypeError
plot_exec_times_vs_dt(data, default, scale) ==
    LET min_n_dt == SeqMin([i \in 1..Len(data.t) |-> Len(data.t[i])])
        items == IF scale /\ default = 0 THEN <<>>
                 ELSE dt_loop(data, 1, default, scale, min_n_dt)
        exc == IF scale /\ default = 0 THEN "TypeError"
               ELSE items[Len(items)].exc
    IN [kind |-> "dt",
        key |-> "t_per_dt",
        args |-> [default |-> default, scale |-> scale, ylabel |-> ""],
        exc |-> exc,
        items |-> items,
        ylabel |-> IF scale THEN "mu(t*_exec)" ELSE "mu(t_exec) [s]",
        scaled |-> scale,
        file |-> IF exc # "none" THEN ""
                 ELSE IF scale THEN "execution_times_vs_dt.png"
                 ELSE "execution_times_vs_dt_abs.png"]

\* ------------------------------------------------------------------ state
\*   fs       the result tree: per setting, the runs in the order glob lists them
\*   cases    the names of the settings the script processes
\*   pc       position of the main script
\*   results  the dict returned by get_mean_and_std_exec_time
\*   raised   the exception that ended the script, "none" while it runs
\*   config   the constants default_idx and scale of the script
\*   fig      the last figure drawn and the file it was saved to
NoFig ==
    [kind |-> "none", key |-> "", args |-> [default |-> 0, scale |-> FALSE, ylabel |-> ""],
     exc |-> "none", items |-> <<>>, ylabel |-> "", scaled |-> FALSE, file |-> ""]

NoConfig == [default_idx |-> 0, scale |-> FALSE]

Start ==
    /\ pc = "start"
    /\ results = EmptyDict
    /\ raised = "none"
    /\ config = NoConfig
    /\ fig = NoFig

\* a result tree of at most total run directories, all of them below the
\* first n settings; a setting outside the tree has no run directory
Tree(n, total) ==
    \E ka, kb, kc \in 0..total :
        /\ ka + kb + kc <= total
        /\ (n < 3 => kc = 0) /\ (n < 2 => kb = 0)
        /\ \E ra \in GlobResults(ka), rb \in GlobResults(kb), rc \in GlobResults(kc) :
              fs = [a |-> ra, b |-> rb, c |-> rc]

\* the whole script, on two or three settings
Init ==
    /\ \E n \in 2..3 : cases = SubSeq(Simulations, 1, n) /\ Tree(n, MaxTree)
    /\ Start

\* the aggregation alone, on one or two settings
InitAgg ==
    /\ \E n \in 1..2 : cases = SubSeq(Simulations, 1, n) /\ Tree(n, MaxRuns)
    /\ Start

\* results = get_mean_and_std_exec_time(load_path, cases)
GetMeanAndStd ==
    /\ pc = "start"
    /\ LET r == get_mean_and_std_exec_time(fs, cases)
       IN IF r.exc = "none"
          THEN /\ results' = r.out
               /\ pc' = "aggregated"
               /\ raised' = raised
          ELSE /\ results' = results
               /\ pc' = "failed"
               /\ raised' = r.exc
    /\ UNCHANGED <<fs, cases, config, fig>>

\* the first plot; the script's constants default_idx and scale, edited before
\* each run, are drawn where the script first reads them
PlotTExec ==
    /\ pc = "aggregated"
    /\ \E default_idx \in 0..Len(cases), scale \in BOOLEAN :
        /\ config' = [default_idx |-> default_idx, scale |-> scale]
        /\ fig' = plot_avg_exec_times_final_policy(results, "t_exec", default_idx,
                                                   "mean_execution_times", "", scale)
    /\ pc' = "plot_t_exec"
    /\ UNCHANGED <<fs, cases, results, raised>>

\* the second plot: the number of time steps, with its own y-label
PlotNDt ==
    /\ pc = "plot_t_exec"
    /\ fig' = plot_avg_exec_times_final_policy(results, "n_dt", config.default_idx,
                                               "mean_n_dt", "N_dt", config.scale)
    /\ pc' = "plot_n_dt"
    /\ UNCHANGED <<fs, cases, results, raised, config>>

\* a plot that raises ends the script
Finish(f, next) ==
    /\ fig' = f
    /\ IF f.exc = "none"
       THEN pc' = next /\ raised' = raised
       ELSE pc' = "failed" /\ raised' = f.exc

PlotProbabilities ==
    /\ pc = "plot_n_dt"
    /\ Finish(plot_probabilities(results.mean_probs, results.t, "probabilities_vs_dt"),
              "plot_probs")
    /\ UNCHANGED <<fs, cases, results, config>>

PlotExecTimesVsDt ==
    /\ pc = "plot_probs"
    /\ Finish(plot_exec_times_vs_dt(results, config.default_idx, config.scale), "done")
    /\ UNCHANGED <<fs, cases, results, config>>

Next ==
    \/ GetMeanAndStd
    \/ PlotTExec
    \/ PlotNDt
    \/ PlotProbabilities
    \/ PlotExecTimesVsDt

Spec == Init /\ [][Next]_vars

NextAgg == GetMeanAndStd

SpecAgg == InitAgg /\ [][NextAgg]_vars

\* ----------------------------------------------------------------- claims
\* the runs of the i-th setting of `cases`, in the order glob found them
RunsOf(i) == fs[cases[i]]

Settings == 1..Len(cases)

RECURSIVE SumOver(_, _)
SumOver(f, S) ==
    IF S = {} THEN 0
    ELSE LET j == CHOOSE j \in S : TRUE IN f[j] + SumOver(f, S \ {j})

\* the number of time steps a run wrote, and the CPU time of its k-th step
Steps(run) == Len(run.timeInfo)
PerStep(run, k) == run.timeInfo[k][4]

\* the shortest per-step series among runs
Shortest(runs) ==
    CHOOSE m \in {Steps(runs[j]) : j \in 1..Len(runs)} :
        \A j \in 1..Len(runs) : m <= Steps(runs[j])

\* mean and unbiased standard deviation of the k-th per-step sample of runs,
\* summed over the set of runs: sum((n x - S)^2) / (n^2 (n - 1))
SampleMean(runs, k) ==
    Rat(SumOver([j \in 1..Len(runs) |-> PerStep(runs[j], k)], 1..Len(runs)),
        Len(runs))

SampleStd(runs, k) ==
    LET n == Len(runs)
        x == [j \in 1..n |-> PerStep(runs[j], k)]
        S == SumOver(x, 1..n)
        d == [j \in 1..n |-> (n * x[j] - S) * (n * x[j] - S)]
    IN IF n = 1 THEN NaN ELSE Fin(Rat(SumOver(d, 1..n), n * n * (n - 1)))

Reversed(runs) == [j \in 1..Len(runs) |-> runs[Len(runs) + 1 - j]]

Keys ==
    {"t", "mean_t_exec", "std_t_exec", "mean_t_per_dt", "std_t_per_dt", "mean_n_dt",
     "std_n_dt", "mean_probs"}

\* C1: when get_mean_and_std_exec_time returns, each of the eight lists of the
\* dict has one entry per setting, and entry i of every list is the aggregate
\* of the runs of setting i alone: the time axis of its first run, and what
\* the loop computes from its runs and no others.
C1_OneRecordPerGroup ==
    pc = "aggregated" =>
        /\ \A key \in Keys : Len(results[key]) = Len(cases)
        /\ \A i \in Settings :
            LET alone == loop_body(EmptyDict, RunsOf(i)).out
            IN /\ \A key \in Keys : results[key][i] = alone[key][1]
               /\ results.t[i] = [k \in 1..Steps(RunsOf(i)[1]) |-> RunsOf(i)[1].timeInfo[k][1]]

C1_Witness ==
    /\ pc = "aggregated"
    /\ Len(cases) = 2
    /\ results.mean_t_exec[1] # results.mean_t_exec[2]
    /\ Len(results.t[1]) # Len(results.t[2])
    /\ ~results.mean_probs[1].some
    /\ results.mean_probs[2].some

\* C2: for every setting, mean_t_per_dt and std_t_per_dt have the length of the
\* shortest per-step series among its runs, element k is the mean / the
\* (unbiased) standard deviation over the runs of their k-th sample, the same
\* in the reverse discovery order, and stacking the truncated series never
\* raises: a RuntimeError can only come from trajectories of different sizes.
C2_TruncatedElementwise ==
    /\ pc = "aggregated" =>
        \A i \in Settings :
            LET runs == RunsOf(i)
                m == Shortest(runs)
                back == loop_body(EmptyDict, Reversed(runs)).out
            IN /\ Len(results.mean_t_per_dt[i]) = m
               /\ Len(results.std_t_per_dt[i]) = m
               /\ \A k \in 1..m :
                    /\ results.mean_t_per_dt[i][k] = SampleMean(runs, k)
                    /\ results.std_t_per_dt[i][k] = SampleStd(runs, k)
               /\ back.mean_t_per_dt # <<>> =>
                    /\ back.mean_t_per_dt[1] = results.mean_t_per_dt[i]
                    /\ back.std_t_per_dt[1] = results.std_t_per_dt[i]
    /\ (pc = "failed" /\ raised = "RuntimeError") =>
        \E i \in Settings :
            /\ \A j \in 1..Len(RunsOf(i)) : RunsOf(i)[j].trajectory.some
            /\ \E j \in 1..Len(RunsOf(i)) :
                 Len(RunsOf(i)[j].trajectory.val) # Len(RunsOf(i)[1].trajectory.val)

C2_Witness ==
    /\ pc = "aggregated"
    /\ \E i \in Settings :
        /\ Len(RunsOf(i)) >= 2
        /\ Steps(RunsOf(i)[1]) > Steps(RunsOf(i)[2])
        /\ Len(results.mean_t_per_dt[i]) = Steps(RunsOf(i)[2])
        /\ ~IsZero(results.std_t_per_dt[i][1])
        /\ results.std_t_per_dt[i][1].kind = "fin"

\* C3: for every setting, mean_probs is None if no run of it has a trajectory
\* and a non-absent average if at least one has, whatever the order of the
\* runs; in particular a setting of which only some runs have a trajectory is
\* aggregated, not refused.
C3_ProbsPresentIffAnyTrajectory ==
    /\ raised # "TypeError"
    /\ pc = "aggregated" =>
        \A i \in Settings :
            results.mean_probs[i].some <=>
                \E j \in 1..Len(RunsOf(i)) : RunsOf(i)[j].trajectory.some

\* every setting has a run, and its runs all have a trajectory or none has
UniformSettings ==
    \A i \in Settings :
        /\ Len(RunsOf(i)) >= 1
        /\ \A j \in 1..Len(RunsOf(i)) :
             RunsOf(i)[j].trajectory.some = RunsOf(i)[1].trajectory.some

\* C4: a setting of which every run has a trajectory is aggregated to a
\* non-absent matrix with as many rows as the truncated per-step series (the
\* shortest run), also when the trajectories of its runs differ in row count.
C4_ProbsTruncatedToCommonSteps ==
    (pc # "start" /\ UniformSettings) =>
        /\ pc = "aggregated"
        /\ \A i \in Settings :
             RunsOf(i)[1].trajectory.some =>
                /\ results.mean_probs[i].some
                /\ Len(results.mean_probs[i].val) = Len(results.mean_t_per_dt[i])

\* C5: for a setting with exactly one run, std_t_exec is 0 and every element
\* of std_t_per_dt is 0.
C5_SingleRunStdIsZero ==
    pc = "aggregated" =>
        \A i \in Settings :
            Len(RunsOf(i)) = 1 =>
                /\ IsZero(results.std_t_exec[i])
                /\ \A k \in 1..Len(results.std_t_per_dt[i]) :
                     IsZero(results.std_t_per_dt[i][k])

\* the lists a call of plot_avg_exec_times_final_policy was given
MeansOf(f) == IF f.key = "t_exec" THEN results.mean_t_exec ELSE results.mean_n_dt
StdsOf(f) == IF f.key = "t_exec" THEN results.std_t_exec ELSE results.std_n_dt

\* the square of a mean, to set it beside a standard deviation
Sq(r) == Rat(r.num * r.num, r.den * r.den)

\* std / mean, on the squares
StdOverMean(std, mean) == IF std.kind = "fin" THEN Fin(RatDiv(std.sq, Sq(mean))) ELSE std

\* C6: with a default index and scaling enabled, every setting is plotted at
\* mean[i] / mean[default] and its error bar has the size std[i] / mean[default].
C6_ScaledByDefaultMean ==
    (fig.kind = "avg" /\ fig.args.scale /\ fig.args.default # 0) =>
        \A i \in 1..Len(fig.items) :
            /\ fig.items[i].y = RatDiv(MeansOf(fig)[i], MeansOf(fig)[fig.args.default])
            /\ fig.items[i].marker = "errorbar" =>
                 fig.items[i].yerr =
                    StdOverMean(StdsOf(fig)[i], MeansOf(fig)[fig.args.default])

\* C7: scaled or not, a setting whose std is zero is drawn as a plain marker
\* and one whose std is not zero with an error bar of finite size (stated for
\* aggregates whose standard deviations are all defined, every setting having
\* at least two runs), also when the std of the default setting is zero.
C7_ErrorBarsFinite ==
    (fig.kind = "avg" /\ \A i \in 1..Len(fig.items) : StdsOf(fig)[i].kind = "fin") =>
        \A i \in 1..Len(fig.items) :
            /\ IsZero(StdsOf(fig)[i]) => fig.items[i].marker = "scatter"
            /\ ~IsZero(StdsOf(fig)[i]) =>
                 /\ fig.items[i].marker = "errorbar"
                 /\ fig.items[i].yerr.kind = "fin"

\* C8: the file is <save_name>.png exactly when the plotted values are scaled
\* and <save_name>_abs.png exactly when they are absolute; and scaling asked
\* for without a default index is switched off as a whole: absolute values,
\* the _abs file, and the absolute label when the label is chosen by the function.
C8_NoDefaultMeansAbsolute ==
    fig.kind = "avg" =>
        LET name == IF fig.key = "t_exec" THEN "mean_execution_times" ELSE "mean_n_dt"
        IN /\ fig.file = (IF fig.scaled THEN name \o ".png" ELSE name \o "_abs.png")
           /\ \A i \in 1..Len(fig.items) :
                fig.items[i].y = (IF fig.scaled
                                  THEN RatDiv(MeansOf(fig)[i], MeansOf(fig)[fig.args.default])
                                  ELSE MeansOf(fig)[i])
           /\ (fig.args.scale /\ fig.args.default = 0) =>
                /\ ~fig.scaled
                /\ fig.file = name \o "_abs.png"
                /\ fig.args.ylabel = "" => fig.ylabel = "t_exec [s]"

\* the settings with a probability aggregate
Policies == {i \in 1..Len(results.mean_probs) : results.mean_probs[i].some}

\* C9: given k >= 1 non-absent probability aggregates (k = 1 included),
\* plot_probabilities draws k subplots, the m-th showing the m-th non-absent
\* setting under the legend entry of its own index; with k = 0 it fails and
\* writes no file.
C9_OneSubplotPerPolicy ==
    fig.kind = "probs" =>
        /\ Policies # {} =>
            /\ fig.exc = "none"
            /\ Len(fig.items) = Cardinality(Policies)
            /\ \A m \in 1..Len(fig.items) :
                 /\ fig.items[m].group \in Policies
                 /\ Cardinality({i \in Policies : i < fig.items[m].group}) = m - 1
                 /\ fig.items[m].legend = fig.items[m].group
        /\ Policies = {} => (fig.exc # "none" /\ fig.file = "")

\* C10: in the plot of the execution time per time step, for every setting
\* the x series and the two y series have one length, and when scaling so
\* have the two divisor series of the default setting.
C10_SeriesOfOneLength ==
    fig.kind = "dt" =>
        \A m \in 1..Len(fig.items) :
            /\ fig.items[m].x = fig.items[m].mean
            /\ fig.items[m].x = fig.items[m].std
            /\ fig.items[m].x = fig.items[m].mean_div
            /\ fig.items[m].x = fig.items[m].std_div

====
